---- MODULE Spec2Model ----
(***************************************************************************)
(* flange-flat-tree: a tree flattened into a vector of Neighbors records   *)
(* in pre-order.  The value-carrying Builder (src/builder.rs) drives the   *)
(* navigator builder; build() wraps the records in a Navigator             *)
(* (src/navigator/navigator_impl.rs) that answers the structural queries.  *)
(*                                                                         *)
(* Indices are Rust usize values, 0-based; TLA+ sequences are 1-based, so  *)
(* the record of node i is neighbors[i + 1].  Option<usize> is modelled by *)
(* an integer: None is -1, Some(i) is i.  A panic of a query is the        *)
(* result Panic.                                                           *)
(***************************************************************************)
EXTENDS Integers, Sequences, FiniteSets, TLC

\* ---------------------------------------------------------------- bounds
\* Largest number of nodes a builder run creates.
MaxNodes == 4
\* Width of usize in bits (scaled down from 64); indices are 0 .. UsizeMax.
UsizeBits == 3

UsizeMax == (2 ^ UsizeBits) - 1
Usize == 0 .. UsizeMax
\* Payloads handed to start_element / start_end_element.
Payloads == {"a", "b"}

None == -1
Panic == -2

VARIABLES
    nav_builder,      \* Builder.nav_builder: [neighbors, parents_stack, last_closed]
    values,           \* Builder.values: Vec<A>
    phase,            \* "building" | "built" | "panicked" (a builder call failed)
    ret,              \* what the last builder call was and the index it returned
    starts,           \* number of start_element + start_end_element calls made
    started,          \* history: per start call, the index returned, the top of
                      \* the open stack before the call, and the payload given
    closed,           \* history: the indices of the nodes closed, in closing order
    tree,             \* FlatTree { nav, values } returned by build()
    overflow_checks,  \* build profile: TRUE = usize overflow panics, FALSE = it wraps
    query,            \* the last Navigator query made and its result
    cursor,           \* for_each_depth_first: next index of the reversed range
    fe,               \* for_each_depth_first: "idle" | "running" | "done" | "panicked"
    visits            \* for_each_depth_first: the visitor's invocations, in order

vars == <<nav_builder, values, phase, ret, starts, started, closed, tree,
          overflow_checks, query, cursor, fe, visits>>

\* ------------------------------------------------------- Neighbors record
Neighbors(p, prev, next) ==
    [parent |-> p, prev_sibling |-> prev, next_sibling |-> next]

\* ------------------------------------------------ navigator::Builder
\* The builder of the Neighbors vector: the records, the stack of open
\* nodes, and for every open level (the top level first) the most recently
\* closed child of that level.
NavBuilder_new ==
    [neighbors |-> <<>>, parents_stack |-> <<>>, last_closed |-> <<None>>]

nav_start_element(nb) ==
    LET my_index == Len(nb.neighbors)
        depth == Len(nb.parents_stack)
        par == IF depth = 0 THEN None ELSE nb.parents_stack[depth]
        prev == nb.last_closed[depth + 1]
        patched == IF prev = None
                     THEN nb.neighbors
                     ELSE [nb.neighbors EXCEPT ![prev + 1].next_sibling = my_index]
    IN  [b |-> [neighbors |-> Append(patched, Neighbors(par, prev, None)),
                parents_stack |-> Append(nb.parents_stack, my_index),
                last_closed |-> Append(nb.last_closed, None)],
         ret |-> my_index]

\* Closing with no open node is a hard failure: nothing changes, no index.
nav_end_element(nb) ==
    LET depth == Len(nb.parents_stack)
    IN  IF depth = 0
          THEN [b |-> nb, ret |-> Panic]
          ELSE [b |-> [neighbors |-> nb.neighbors,
                       parents_stack |-> SubSeq(nb.parents_stack, 1, depth - 1),
                       last_closed |-> [SubSeq(nb.last_closed, 1, depth)
                                          EXCEPT ![depth] = nb.parents_stack[depth]]],
                ret |-> nb.parents_stack[depth]]

nav_start_end_element(nb) ==
    nav_end_element(nav_start_element(nb).b)

\* ------------------------------------------------------------ Navigator
Navigator_new(neighbors) == [neighbors |-> neighbors]

nav_build(nb) == Navigator_new(nb.neighbors)

\* index + 1 on usize: past the largest value a build with overflow checks
\* panics and a build without them wraps around.
usize_succ(index) ==
    IF index + 1 > UsizeMax
      THEN (IF overflow_checks THEN Panic ELSE (index + 1) % (2 ^ UsizeBits))
      ELSE index + 1

\* Mutant: the prev_sibling field is read.
parent_reads_prev_sibling(nav, index) ==
    IF index < Len(nav.neighbors) THEN nav.neighbors[index + 1].prev_sibling ELSE None

\* Mutant: the record after the node is read, as first_child does.
parent_of_next_record(nav, index) ==
    IF index + 1 < Len(nav.neighbors) THEN nav.neighbors[index + 2].parent ELSE None

parent(nav, index) ==
    IF index < Len(nav.neighbors) THEN nav.neighbors[index + 1].parent ELSE None

\* Mutant: the record before the node is taken for its previous sibling.
prev_sibling_is_predecessor(nav, index) ==
    IF index < Len(nav.neighbors) /\ index > 0 /\ nav.neighbors[index + 1].parent # index - 1
      THEN index - 1
      ELSE None

prev_sibling(nav, index) ==
    IF index < Len(nav.neighbors) THEN nav.neighbors[index + 1].prev_sibling ELSE None

\* Mutant: the record after the node is taken for its next sibling.
next_sibling_is_successor(nav, index) ==
    IF index + 1 < Len(nav.neighbors) THEN index + 1 ELSE None

\* Mutant: the field of the other direction is read.
next_sibling_reads_prev(nav, index) ==
    IF index < Len(nav.neighbors) THEN nav.neighbors[index + 1].prev_sibling ELSE None

next_sibling(nav, index) ==
    IF index < Len(nav.neighbors) THEN nav.neighbors[index + 1].next_sibling ELSE None

\* Mutant: the comparison with index is inverted.
first_child_inverted(nav, index) ==
    LET next == usize_succ(index)
    IN  IF next = Panic THEN Panic
        ELSE IF ~(next < Len(nav.neighbors)) THEN None
        ELSE IF nav.neighbors[next + 1].parent = None THEN Panic
        ELSE IF nav.neighbors[next + 1].parent = index THEN None
        ELSE next

\* neighbors.get(index + 1).and_then(|i| if i.parent.unwrap() != index ...):
\* unwrap() of a record without parent panics.
first_child(nav, index) ==
    LET next == usize_succ(index)
    IN  IF next = Panic THEN Panic
        ELSE IF ~(next < Len(nav.neighbors)) THEN None
        ELSE IF nav.neighbors[next + 1].parent = None THEN Panic
        ELSE IF nav.neighbors[next + 1].parent # index THEN None
        ELSE next

\* Results of children() that are no vector: the call panicked, or its loop
\* never ends.
PanicVec == <<Panic>>
Diverged == <<-3>>

\* Mutant: the loop never moves on from the first child.
RECURSIVE children_loop_no_advance(_, _, _)
children_loop_no_advance(nav, opt_cindex, res) ==
    IF opt_cindex = None THEN res
    ELSE IF ~(opt_cindex < Len(nav.neighbors)) THEN PanicVec
    ELSE IF Len(res) >= Len(nav.neighbors) THEN Diverged
    ELSE children_loop_no_advance(nav, opt_cindex, Append(res, opt_cindex))

\* The while-let loop of children(): res so far, opt_cindex the link to follow.
\* neighbors.get(cindex).unwrap() panics on a link to a missing record; a
\* loop that has pushed every record once and still holds a link is in a cycle.
RECURSIVE children_loop(_, _, _)
children_loop(nav, opt_cindex, res) ==
    IF opt_cindex = None THEN res
    ELSE IF ~(opt_cindex < Len(nav.neighbors)) THEN PanicVec
    ELSE IF Len(res) >= Len(nav.neighbors) THEN Diverged
    ELSE children_loop(nav, nav.neighbors[opt_cindex + 1].next_sibling,
                       Append(res, opt_cindex))

children(nav, index) ==
    LET first == first_child(nav, index)
    IN  IF first = Panic THEN PanicVec ELSE children_loop(nav, first, <<>>)

\* ------------------------------------------------------ Builder<A>
Builder_new == [nav_builder |-> NavBuilder_new, values |-> <<>>]

\* get(index): values.get(index); Option<&A> as a sequence of at most one
\* payload.
Builder_get(b, index) ==
    IF index < Len(b.values) THEN <<b.values[index + 1]>> ELSE <<>>

\* Mutant: the payload is put in front of the stored ones.
Builder_start_element_prepends(b, el) ==
    LET vs == <<el>> \o b.values
        r == nav_start_element(b.nav_builder)
    IN  [b |-> [nav_builder |-> r.b, values |-> vs], ret |-> r.ret]

\* Mutant: the length of values after the push is returned.
Builder_start_element_returns_len(b, el) ==
    LET vs == Append(b.values, el)
        r == nav_start_element(b.nav_builder)
    IN  [b |-> [nav_builder |-> r.b, values |-> vs], ret |-> Len(vs)]

Builder_start_element(b, el) ==
    LET vs == Append(b.values, el)
        r == nav_start_element(b.nav_builder)
    IN  [b |-> [nav_builder |-> r.b, values |-> vs], ret |-> r.ret]

\* Mutant: closing a node drops the payload stored last.
Builder_end_element_pops_value(b) ==
    LET r == nav_end_element(b.nav_builder)
    IN  [b |-> [nav_builder |-> r.b,
                values |-> IF r.ret = Panic THEN b.values
                           ELSE SubSeq(b.values, 1, Len(b.values) - 1)],
         ret |-> r.ret]

\* Mutant: the node started last is reported, open or not.
Builder_end_element_returns_last(b) ==
    LET r == nav_end_element(b.nav_builder)
    IN  [b |-> [nav_builder |-> r.b, values |-> b.values],
         ret |-> IF r.ret = Panic THEN Panic ELSE Len(b.values) - 1]

\* Mutant: a failed close is turned into index 0.
Builder_end_element_or_default(b) ==
    LET r == nav_end_element(b.nav_builder)
    IN  [b |-> [nav_builder |-> r.b, values |-> b.values],
         ret |-> IF r.ret = Panic THEN 0 ELSE r.ret]

Builder_end_element(b) ==
    LET r == nav_end_element(b.nav_builder)
    IN  [b |-> [nav_builder |-> r.b, values |-> b.values], ret |-> r.ret]

\* Mutant: the node is started and left open.
Builder_start_end_element_no_end(b, el) ==
    LET vs == Append(b.values, el)
        r == nav_start_element(b.nav_builder)
    IN  [b |-> [nav_builder |-> r.b, values |-> vs], ret |-> r.ret]

Builder_start_end_element(b, el) ==
    LET vs == Append(b.values, el)
        r == nav_start_end_element(b.nav_builder)
    IN  [b |-> [nav_builder |-> r.b, values |-> vs], ret |-> r.ret]

\* Mutant: only what precedes the outermost open node is handed over.
Builder_build_closed_only(b) ==
    LET keep == IF b.nav_builder.parents_stack = <<>>
                  THEN Len(b.nav_builder.neighbors)
                  ELSE b.nav_builder.parents_stack[1]
    IN  [nav |-> Navigator_new(SubSeq(b.nav_builder.neighbors, 1, keep)),
         values |-> SubSeq(b.values, 1, keep)]

Builder_build(b) ==
    [nav |-> nav_build(b.nav_builder), values |-> b.values]

\* The builder as one value.
self == [nav_builder |-> nav_builder, values |-> values]

\* The open node a new node is started under: parents_stack.last().
top_of_stack ==
    IF nav_builder.parents_stack = <<>> THEN None
    ELSE nav_builder.parents_stack[Len(nav_builder.parents_stack)]

NoTree == [nav |-> Navigator_new(<<>>), values |-> <<>>]
NoQuery == [op |-> "none", index |-> 0, result |-> <<>>]

Init ==
    /\ nav_builder = Builder_new.nav_builder
    /\ values = Builder_new.values
    /\ phase = "building"
    /\ ret = [op |-> "new", index |-> None]
    /\ starts = 0
    /\ started = <<>>
    /\ closed = <<>>
    /\ tree = NoTree
    /\ overflow_checks \in BOOLEAN
    /\ query = NoQuery
    /\ cursor = None
    /\ fe = "idle"
    /\ visits = <<>>

\* ---------------------------------------------------------- builder calls
StartElement(el) ==
    /\ phase = "building"
    /\ Len(nav_builder.neighbors) < MaxNodes
    /\ LET r == Builder_start_element(self, el)
       IN  /\ nav_builder' = r.b.nav_builder
           /\ values' = r.b.values
           /\ ret' = [op |-> "start_element", index |-> r.ret]
           /\ started' = Append(started, [index |-> r.ret, top |-> top_of_stack,
                                          el |-> el])
    /\ starts' = starts + 1
    /\ UNCHANGED <<phase, closed, tree, overflow_checks, query, cursor, fe, visits>>

StartEndElement(el) ==
    /\ phase = "building"
    /\ Len(nav_builder.neighbors) < MaxNodes
    /\ LET r == Builder_start_end_element(self, el)
       IN  /\ nav_builder' = r.b.nav_builder
           /\ values' = r.b.values
           /\ ret' = [op |-> "start_end_element", index |-> r.ret]
           /\ started' = Append(started, [index |-> r.ret, top |-> top_of_stack,
                                          el |-> el])
           /\ closed' = Append(closed, r.ret)
    /\ starts' = starts + 1
    /\ UNCHANGED <<phase, tree, overflow_checks, query, cursor, fe, visits>>

EndElement ==
    /\ phase = "building"
    /\ LET r == Builder_end_element(self)
       IN  /\ nav_builder' = r.b.nav_builder
           /\ values' = r.b.values
           /\ ret' = [op |-> "end_element", index |-> r.ret]
           /\ phase' = IF r.ret = Panic THEN "panicked" ELSE phase
           /\ closed' = IF r.ret = Panic THEN closed ELSE Append(closed, r.ret)
    /\ UNCHANGED <<starts, started, tree, overflow_checks, query, cursor, fe, visits>>

\* build(self) consumes the builder: its fields stay as they were at the call.
Build ==
    /\ phase = "building"
    /\ tree' = Builder_build(self)
    /\ phase' = "built"
    /\ ret' = [op |-> "build", index |-> None]
    /\ UNCHANGED <<nav_builder, values, starts, started, closed, overflow_checks,
                   query, cursor, fe, visits>>

\* -------------------------------------------------------- navigator calls
\* The indices a caller asks about: every node, the first index past the
\* last node, and the largest usize.
QueryIndices == (0 .. Len(tree.nav.neighbors)) \cup {UsizeMax}

QueryOps == {"parent", "prev_sibling", "next_sibling", "first_child", "children"}

Answer(op, index) ==
    CASE op = "parent" -> <<parent(tree.nav, index)>>
      [] op = "prev_sibling" -> <<prev_sibling(tree.nav, index)>>
      [] op = "next_sibling" -> <<next_sibling(tree.nav, index)>>
      [] op = "first_child" -> <<first_child(tree.nav, index)>>
      [] op = "children" -> children(tree.nav, index)

\* A query changes nothing in the Navigator, so one recorded call per
\* Navigator (until a traversal clears the record) covers every call.
Query(op, index) ==
    /\ phase = "built"
    /\ fe = "idle"
    /\ query = NoQuery
    /\ query' = [op |-> op, index |-> index, result |-> Answer(op, index)]
    /\ UNCHANGED <<nav_builder, values, phase, ret, starts, started, closed, tree,
                   overflow_checks, cursor, fe, visits>>

\* for_each_depth_first: (0..len).rev().for_each(|i| f(i, self.children(i))).
ForEachStart ==
    /\ phase = "built"
    /\ fe = "idle"
    /\ cursor' = Len(tree.nav.neighbors) - 1
    /\ fe' = IF Len(tree.nav.neighbors) = 0 THEN "done" ELSE "running"
    /\ visits' = <<>>
    /\ query' = NoQuery
    /\ UNCHANGED <<nav_builder, values, phase, ret, starts, started, closed, tree,
                   overflow_checks>>

\* One round of the iteration: children(i) is computed, then the visitor runs.
ForEachVisit ==
    /\ fe = "running"
    /\ LET childs == children(tree.nav, cursor)
       IN  IF childs = PanicVec \/ childs = Diverged
             THEN /\ fe' = "panicked"
                  /\ UNCHANGED <<cursor, visits>>
             ELSE /\ visits' = Append(visits, [i |-> cursor, childs |-> childs])
                  /\ cursor' = cursor - 1
                  /\ fe' = IF cursor = 0 THEN "done" ELSE "running"
    /\ UNCHANGED <<nav_builder, values, phase, ret, starts, started, closed, tree,
                   overflow_checks, query>>

Next ==
    \/ \E el \in Payloads : StartElement(el)
    \/ \E el \in Payloads : StartEndElement(el)
    \/ EndElement
    \/ Build
    \/ \E op \in QueryOps, index \in QueryIndices : Query(op, index)
    \/ ForEachStart
    \/ ForEachVisit

Spec == Init /\ [][Next]_vars

TypeOK ==
    /\ phase \in {"building", "built", "panicked"}
    /\ fe \in {"idle", "running", "done", "panicked"}
    /\ Len(nav_builder.neighbors) <= MaxNodes
    /\ Len(nav_builder.last_closed) = Len(nav_builder.parents_stack) + 1

\* ------------------------------------------------------------ properties
\* The Navigator build() would return from the builder as it is now.
current == nav_build(nav_builder)
Count(nav) == Len(nav.neighbors)
Nodes(nav) == 0 .. Count(nav) - 1

\* Every node, the first index past the last node, and the largest usize.
Probes(nav) == (0 .. Count(nav)) \cup {UsizeMax}

\* A Navigator built after a balanced sequence of events.
Balanced == phase = "built" /\ nav_builder.parents_stack = <<>>
\* No end_element was called with an empty open stack.
NoEmptyEnd == phase # "panicked"

HasRecordWithParent(nav, i, p) ==
    i < Count(nav) /\ nav.neighbors[i + 1].parent = p

\* C1: in a Navigator built from a balanced event sequence, first_child(i) of
\* every valid index i is Some(i+1) iff a record exists at i+1 whose parent
\* field is i, and is absent (never a failure) in every other case.
C1_FirstChildContiguity ==
    Balanced =>
        \A i \in Nodes(tree.nav) :
            first_child(tree.nav, i) =
                IF HasRecordWithParent(tree.nav, i + 1, i) THEN i + 1 ELSE None

VisitedBefore(k) == {visits[m].i : m \in 1 .. k - 1}

\* C2: on a Navigator built from a balanced event sequence,
\* for_each_depth_first completes, invokes the visitor exactly once for each
\* index 0..N-1, and every child of i was visited before i.
C2_DepthFirstComplete ==
    Balanced =>
        /\ fe # "panicked"
        /\ \A k \in 1 .. Len(visits) :
              /\ visits[k].i \notin VisitedBefore(k)
              /\ \A m \in 1 .. Len(visits[k].childs) :
                    visits[k].childs[m] \in VisitedBefore(k)
        /\ fe = "done" =>
              {visits[k].i : k \in 1 .. Len(visits)} = Nodes(tree.nav)

\* C3: sibling symmetry.  As long as end_element was never called with an
\* empty open stack, next_sibling(i) = Some(j) iff prev_sibling(j) = Some(i),
\* for all indices i and j: whatever next_sibling(i) names has i as its
\* prev_sibling, and whatever prev_sibling(j) names has j as its next_sibling.
C3_SiblingSymmetry ==
    NoEmptyEnd =>
        \A i \in Probes(current) :
            /\ next_sibling(current, i) # None =>
                  prev_sibling(current, next_sibling(current, i)) = i
            /\ prev_sibling(current, i) # None =>
                  next_sibling(current, prev_sibling(current, i)) = i

\* C3 witness: a child whose next sibling was started after the child's own
\* subtree was closed.
C3_Witness ==
    /\ NoEmptyEnd
    /\ \E i \in Nodes(current) :
          /\ next_sibling(current, i) = i + 2
          /\ prev_sibling(current, i + 2) = i
          /\ parent(current, i) # None

SameParentBefore(nav, i) ==
    {j \in Nodes(nav) : j < i /\ parent(nav, j) = parent(nav, i)}
SameParentAfter(nav, i) ==
    {j \in Nodes(nav) : j > i /\ parent(nav, j) = parent(nav, i)}
Greatest(S) == CHOOSE x \in S : \A y \in S : y <= x
Least(S) == CHOOSE x \in S : \A y \in S : x <= y

ChildrenOf(nav, p) == {c \in Nodes(nav) : parent(nav, c) = p}

\* C5: contiguity.  As long as end_element was never called with an empty open
\* stack, every node p that has a child has its first child (the child
\* without prev_sibling, the lowest-indexed one) at index p + 1.
C5_Contiguity ==
    NoEmptyEnd =>
        \A p \in Nodes(current) :
            ChildrenOf(current, p) # {} =>
                /\ first_child(current, p) = p + 1
                /\ Least(ChildrenOf(current, p)) = p + 1
                /\ \A c \in ChildrenOf(current, p) :
                      (prev_sibling(current, c) = None) <=> (c = p + 1)

\* C5 witness: a node that is not a root has two children.
C5_Witness ==
    /\ NoEmptyEnd
    /\ \E p \in Nodes(current) :
          /\ parent(current, p) # None
          /\ Cardinality(ChildrenOf(current, p)) >= 2
          /\ first_child(current, p) = p + 1

\* The indices met by following parent links from i, i first.
RECURSIVE parent_chain(_, _, _)
parent_chain(nav, i, fuel) ==
    IF fuel = 0 \/ parent(nav, i) = None
      THEN <<i>>
      ELSE <<i>> \o parent_chain(nav, parent(nav, i), fuel - 1)

Ancestors(nav, i) ==
    LET chain == parent_chain(nav, i, Count(nav))
    IN  {chain[k] : k \in 2 .. Len(chain)}

\* C6: descendant ordering.  As long as end_element was never called with an
\* empty open stack, every non-root node i has parent(i) < i, the parent
\* links from any node decrease strictly and end at a root, and every
\* ancestor of a node has a smaller index than the node.
C6_DescendantOrdering ==
    NoEmptyEnd =>
        \A i \in Nodes(current) :
            LET chain == parent_chain(current, i, Count(current))
            IN  /\ parent(current, i) # None =>
                      (0 <= parent(current, i) /\ parent(current, i) < i)
                /\ \A k \in 1 .. Len(chain) - 1 : chain[k + 1] < chain[k]
                /\ parent(current, chain[Len(chain)]) = None
                /\ \A a \in Ancestors(current, i) : a < i

\* C6 witness: a node two levels below a root whose parent is not the record
\* right before it.
C6_Witness ==
    /\ NoEmptyEnd
    /\ \E i \in Nodes(current) :
          /\ parent(current, i) # None
          /\ parent(current, i) < i - 1
          /\ Cardinality(Ancestors(current, i)) >= 2

\* C7: on every Navigator with N nodes, for every index i >= N up to the
\* largest usize, parent, prev_sibling, next_sibling and first_child return
\* absent and children returns the empty sequence; none of them fails.
C7_QueriesTotal ==
    phase = "built" =>
        \A i \in Usize :
            i >= Count(tree.nav) =>
                /\ parent(tree.nav, i) = None
                /\ prev_sibling(tree.nav, i) = None
                /\ next_sibling(tree.nav, i) = None
                /\ first_child(tree.nav, i) = None
                /\ children(tree.nav, i) = <<>>

\* C8: balanced-protocol closure.  Every start_element / start_end_element
\* returns the number of nodes created before it, and whenever the open
\* stack is empty build() succeeds and yields a tree whose node count is the
\* number of start calls.
C8_BalancedClosure ==
    /\ ret.op \in {"start_element", "start_end_element"} =>
          /\ ret.index = starts - 1
          /\ ret.index = Count(current) - 1
    /\ (phase = "building" /\ nav_builder.parents_stack = <<>>) =>
          /\ ENABLED Build
          /\ Count(Builder_build(self).nav) = starts
          /\ Len(Builder_build(self).values) = starts
    /\ Balanced =>
          /\ Count(tree.nav) = starts
          /\ Len(tree.values) = starts

\* C8 witness: a tree of several nodes, nested and with two roots, was built
\* after a balanced sequence.
C8_Witness ==
    /\ Balanced
    /\ starts >= 3
    /\ Count(tree.nav) = starts
    /\ \E i \in Nodes(tree.nav) : parent(tree.nav, i) # None
    /\ \E i \in Nodes(tree.nav) : i > 0 /\ parent(tree.nav, i) = None

StartThenEnd(b, el) ==
    LET r1 == Builder_start_element(b, el)
        r2 == Builder_end_element(r1.b)
    IN  [b |-> r2.b, ret |-> r2.ret, started |-> r1.ret]

Range(seq) == {seq[k] : k \in 1 .. Len(seq)}
PositionIn(seq, x) == CHOOSE k \in 1 .. Len(seq) : seq[k] = x

\* The nodes started and not yet closed, by the history of the calls.
OpenNodes == {started[k].index : k \in 1 .. Len(started)} \ Range(closed)

\* C12: end_element is LIFO.  Whenever a node is open, end_element() returns
\* the most recently started node not yet closed and removes exactly that
\* node from the open stack; nested nodes are closed innermost first and no
\* node is closed twice; after a balanced sequence every node was closed once.
C12_EndElementIsLifo ==
    NoEmptyEnd =>
        /\ Range(nav_builder.parents_stack) = OpenNodes
        /\ Len(nav_builder.parents_stack) = Cardinality(OpenNodes)
        /\ (phase = "building" /\ OpenNodes # {}) =>
              LET r == Builder_end_element(self)
              IN  /\ r.ret = Greatest(OpenNodes)
                  /\ Range(r.b.nav_builder.parents_stack) = OpenNodes \ {r.ret}
                  /\ Len(r.b.nav_builder.parents_stack) = Cardinality(OpenNodes) - 1
        /\ Cardinality(Range(closed)) = Len(closed)
        /\ \A k \in 1 .. Len(closed) :
              \A a \in Ancestors(current, closed[k]) :
                  a \notin {closed[j] : j \in 1 .. k}
        /\ nav_builder.parents_stack = <<>> => Range(closed) = Nodes(current)

\* C12 witness: a balanced sequence with two nested levels, in which an
\* end_element call returned a node that was not the last one started.
C12_Witness ==
    /\ phase = "building"
    /\ nav_builder.parents_stack = <<>>
    /\ ret.op = "end_element"
    /\ ret.index < Count(current) - 1
    /\ \E d \in Nodes(current) :
          /\ Cardinality(Ancestors(current, d)) >= 2
          /\ \A a \in Ancestors(current, d) :
                PositionIn(closed, d) < PositionIn(closed, a)

\* C13: parent assignment.  For every node i, parent(i) is the index that was
\* on top of the open stack when i was started, absent iff the stack was
\* empty then; it has that value from the node's creation on, in the builder
\* and in the built Navigator.
C13_ParentIsTopAtStart ==
    NoEmptyEnd =>
        /\ Len(started) = Count(current)
        /\ \A k \in 1 .. Len(started) :
              /\ started[k].index = k - 1
              /\ parent(current, started[k].index) = started[k].top
              /\ phase = "built" =>
                    parent(tree.nav, started[k].index) = started[k].top

\* C13 witness: a built tree with a node started under a parent that is not
\* the record before it, after a sibling's subtree, and a later root.
C13_Witness ==
    /\ Balanced
    /\ \E k \in 1 .. Len(started) :
          /\ started[k].top # None
          /\ started[k].top < started[k].index - 1
          /\ parent(tree.nav, started[k].index) = started[k].top
    /\ \E k \in 2 .. Len(started) :
          /\ started[k].top = None
          /\ parent(tree.nav, started[k].index) = None

\* What a caller collects by taking first_child(i) and then next_sibling of
\* each index obtained, until it is absent.
RECURSIVE follow_siblings(_, _, _)
follow_siblings(nav, opt_index, res) ==
    IF opt_index = None THEN res
    ELSE IF Len(res) > Count(nav) THEN Diverged
    ELSE follow_siblings(nav, next_sibling(nav, opt_index), Append(res, opt_index))

SiblingChain(nav, i) ==
    IF first_child(nav, i) = Panic THEN PanicVec
    ELSE follow_siblings(nav, first_child(nav, i), <<>>)

\* C14: children round-trip.  In a Navigator built from a balanced event
\* sequence, for every index i, children(i) is the sequence first_child(i),
\* next_sibling(first_child(i)), ... up to the absent next_sibling, and it is
\* empty iff first_child(i) is absent.
C14_ChildrenRoundTrip ==
    Balanced =>
        \A i \in Probes(tree.nav) :
            /\ children(tree.nav, i) # PanicVec
            /\ children(tree.nav, i) = SiblingChain(tree.nav, i)
            /\ (children(tree.nav, i) = <<>>) <=> (first_child(tree.nav, i) = None)

\* The part of C14 that the failure of first_child leaves standing: both
\* ways of collecting the children have the same outcome.
C14_SameOutcome ==
    phase = "built" =>
        \A i \in Probes(tree.nav) :
            /\ children(tree.nav, i) = SiblingChain(tree.nav, i)
            /\ (children(tree.nav, i) = <<>>) <=> (first_child(tree.nav, i) = None)

\* The elements of a set of indices in increasing order.
RECURSIVE Increasing(_)
Increasing(S) ==
    IF S = {} THEN <<>> ELSE <<Least(S)>> \o Increasing(S \ {Least(S)})

\* C15: in a Navigator built from a balanced event sequence, children(i) of
\* every valid index i is the strictly increasing list of all indices whose
\* parent field is i: none missing, none repeated, none of another parent.
C15_ChildrenAreDirectChildren ==
    Balanced =>
        \A i \in Nodes(tree.nav) :
            children(tree.nav, i) = Increasing(ChildrenOf(tree.nav, i))

\* C16: for_each_depth_first visits the indices N-1, N-2, ..., 0 in this
\* order, hands the visitor children(i) with index i, and never calls the
\* visitor on an empty Navigator.
C16_ReversePreOrder ==
    phase = "built" =>
        /\ fe # "panicked"
        /\ \A k \in 1 .. Len(visits) :
              /\ visits[k].i = Count(tree.nav) - k
              /\ visits[k].childs = children(tree.nav, visits[k].i)
        /\ fe = "done" => Len(visits) = Count(tree.nav)

\* The part of C16 that the failure of children() leaves standing: the visits
\* made are for N-1, N-2, ... in this order, each with children(i).
C16_VisitsMadeDescend ==
    phase = "built" =>
        /\ \A k \in 1 .. Len(visits) :
              /\ visits[k].i = Count(tree.nav) - k
              /\ visits[k].childs = children(tree.nav, visits[k].i)
        /\ fe = "done" => Len(visits) = Count(tree.nav)

Descendants(nav, i) == {d \in Nodes(nav) : i \in Ancestors(nav, d)}

\* C17: subtree contiguity.  In a Navigator built from a balanced event
\* sequence the descendants of any node i are exactly the indices
\* i+1 .. i+k for some k >= 0, and next_sibling(i), when present, is i+k+1.
C17_SubtreeContiguity ==
    Balanced =>
        \A i \in Nodes(tree.nav) :
            LET below == Descendants(tree.nav, i)
                k == Cardinality(below)
            IN  /\ below = (i + 1) .. (i + k)
                /\ next_sibling(tree.nav, i) # None =>
                      next_sibling(tree.nav, i) = i + k + 1

\* C17 witness: a node with a child and a grandchild, followed by its next
\* sibling.
C17_Witness ==
    /\ Balanced
    /\ \E i \in Nodes(tree.nav) :
          /\ Descendants(tree.nav, i) = {i + 1, i + 2}
          /\ parent(tree.nav, i + 2) = i + 1
          /\ next_sibling(tree.nav, i) = i + 3

\* C18: children(i) terminates on every Navigator the builder produces, for
\* every index i: each next_sibling link leads to a strictly greater valid
\* index, so the loop, from whichever node it starts, meets no cycle and no
\* missing record and ends after at most N steps.
C18_ChildrenTerminates ==
    phase = "built" =>
        /\ \A c \in Nodes(tree.nav) :
              next_sibling(tree.nav, c) # None =>
                  /\ c < next_sibling(tree.nav, c)
                  /\ next_sibling(tree.nav, c) < Count(tree.nav)
        /\ \A c \in Nodes(tree.nav) :
              LET res == children_loop(tree.nav, c, <<>>)
              IN  /\ res # Diverged
                  /\ res # PanicVec
                  /\ Len(res) <= Count(tree.nav)
        /\ \A i \in Probes(tree.nav) : children(tree.nav, i) # Diverged

\* C18 witness: children() returned two children, the second reached by a
\* next_sibling link that skips the first one's subtree.
C18_Witness ==
    /\ phase = "built"
    /\ query.op = "children"
    /\ Len(query.result) = 2
    /\ query.result[1] = query.index + 1
    /\ query.result[2] > query.result[1] + 1

\* A node whose parent has been closed.
UnderClosedParent(c) ==
    /\ parent(current, c) # None
    /\ parent(current, c) \notin Range(nav_builder.parents_stack)

\* C19: end_element changes only the open stack and the record of the most
\* recently closed child: the number of nodes, every Neighbors record and the
\* payloads stay as they are; and once a node's parent is closed no later
\* call changes the node's record.
C19_EndElementFrame ==
    [][/\ EndElement =>
            /\ nav_builder'.neighbors = nav_builder.neighbors
            /\ values' = values
            /\ starts' = starts
            /\ phase' = "building" =>
                  /\ nav_builder'.parents_stack =
                        SubSeq(nav_builder.parents_stack, 1,
                               Len(nav_builder.parents_stack) - 1)
                  /\ ret'.index = top_of_stack
       /\ \A c \in Nodes(current) :
            UnderClosedParent(c) =>
                nav_builder'.neighbors[c + 1] = nav_builder.neighbors[c + 1]
      ]_vars

\* C19 witness: end_element has just closed a root whose two children are
\* linked to each other.
C19_Witness ==
    /\ phase = "building"
    /\ ret.op = "end_element"
    /\ nav_builder.parents_stack = <<>>
    /\ children(current, ret.index) = <<ret.index + 1, ret.index + 2>>
    /\ next_sibling(current, ret.index + 1) = ret.index + 2
    /\ prev_sibling(current, ret.index + 2) = ret.index + 1

\* C20: payloads stay co-indexed with nodes.  After any start_element(v),
\* start_end_element(v) and successful end_element() calls there are as many
\* payloads as nodes, get(k) yields the payload given to the start call that
\* returned k, get(j) is absent for j >= the node count, and build() yields a
\* tree with as many payloads as its Navigator has nodes.
C20_PayloadsCoIndexed ==
    NoEmptyEnd =>
        /\ Len(values) = Count(current)
        /\ \A k \in 1 .. Len(started) :
              Builder_get(self, started[k].index) = <<started[k].el>>
        /\ \A j \in Probes(current) :
              j >= Count(current) => Builder_get(self, j) = <<>>
        /\ phase = "built" =>
              /\ Len(tree.values) = Count(tree.nav)
              /\ tree.values = values

\* C20 witness: a tree built from both kinds of start call with different
\* payloads, nested and closed.
C20_Witness ==
    /\ Balanced
    /\ Len(tree.values) >= 3
    /\ tree.values[1] # tree.values[2]
    /\ parent(tree.nav, 1) = 0
    /\ Builder_get(self, 1) = <<started[2].el>>
    /\ Builder_get(self, Count(tree.nav)) = <<>>

====
